---- MODULE Spec2Model ----
(***************************************************************************)
(* FareShare backend: the ride / booking seat inventory.                   *)
(*                                                                         *)
(* The persistent state is the rides table and the bookings table.  Every  *)
(* route handler of routes/booking.py and routes/rides.py that writes one  *)
(* of them is an operator from the tables (and the request) to the result  *)
(* and the tables after the request; a commit that breaks a CHECK          *)
(* constraint of the rides table fails and leaves the tables untouched.    *)
(*                                                                         *)
(* Spec      runs the handlers one request after the other.                *)
(* SpecConc  interleaves concurrent create_booking and cancellation       *)
(*           requests at their awaits: each request works on the Ride      *)
(*           object it loaded.                                             *)
(* SpecGeo   answers proximity searches over rides that carry their two    *)
(*           points; places are positions in metres along one road.        *)
(* SpecRate  serves concurrent geocoding requests through the shared      *)
(*           per-IP rate limiter of routes/geo.py.                         *)
(***************************************************************************)
EXTENDS Integers, Sequences, FiniteSets, TLC

\* ---------------------------------------------------------------- bounds
NumUsers == 3
NumDrivers == 1
MaxRides == 1
MaxBookings == 2
MaxSeatsTotal == 2
NumProcs == 2
MaxGeoRides == 2
NumClientIPs == 2
MaxClock == 5
\* the limiter is built as SimpleRateLimiter(max_requests, window_seconds);
\* the model instantiates the class with a small quota and a short window
max_requests == 2
window_seconds == 2

\* ------------------------------------------------------- program constants
MaxSeats == 10
MaxSeatsReserved == 10
MaxPrice == 999999
MaxRadiusKm == 200
MaxPageSize == 100

Users == 1..NumUsers
\* the users who post rides
Drivers == 1..NumDrivers
Procs == 1..NumProcs
ClientIPs == 1..NumClientIPs

RideTypes == {"offer", "request"}
RideStatuses == {"requested", "open", "full", "cancelled", "completed"}
BookingStatuses == {"pending", "confirmed", "completed", "cancelled"}
TerminalRide == {"completed", "cancelled"}
ActiveBooking == {"pending", "confirmed"}
TerminalBooking == {"completed", "cancelled"}

\* prices in cents; -1 is the invalid price a client may send
Prices == {0, 1000}
PriceInputs == Prices \cup {-1}
\* seat counts a client may send: around the model's capacity and around
\* the schema limits
SeatsTotalInputs == (0..MaxSeatsTotal) \cup {MaxSeats + 1}
SeatsReservedInputs == (0..(MaxSeatsTotal + 1)) \cup {MaxSeatsReserved + 1}
None == -1000

VARIABLES rides, bookings, last, procs, requests, now, admitted
vars == <<rides, bookings, last, procs, requests, now, admitted>>
\* the rate limiter of routes/geo.py: its per-IP lists, the clock it reads
\* and the history of the calls it has admitted
limiter == <<requests, now, admitted>>

\* --------------------------------------------------------------- helpers
RideIds(rs) == {r \in 1..Len(rs) : ~rs[r].deleted}
BookingIds(bs) == 1..Len(bs)
BookingsOf(bs, r) == {b \in BookingIds(bs) : bs[b].ride_id = r}

RECURSIVE SumSeats(_, _)
SumSeats(bs, S) ==
    IF S = {} THEN 0
    ELSE LET b == CHOOSE x \in S : TRUE
         IN bs[b].seats_reserved + SumSeats(bs, S \ {b})

ActiveSeats(bs, r) ==
    SumSeats(bs, {b \in BookingsOf(bs, r) : bs[b].status \in ActiveBooking})

\* ------------------------------------------------ rides table constraints
check_seats_range_lower(ride) == ride.seats_available >= 0

check_seats_range(ride) ==
    ride.seats_available >= 0 /\ ride.seats_available <= ride.seats_total

check_ride_status(ride) == ride.status \in RideStatuses

check_seats_positive(ride) == ride.seats_total > 0

check_price_positive(ride) == ride.price_share >= 0

TableArgsHold(rs) ==
    \A r \in RideIds(rs) :
        /\ check_seats_range(rs[r])
        /\ check_ride_status(rs[r])
        /\ check_seats_positive(rs[r])
        /\ check_price_positive(rs[r])

Outcome(res, rs, bs) == [res |-> res, rides |-> rs, bookings |-> bs]

commit_partial(rs0, bs0, rs1, bs1) ==
    IF TableArgsHold(rs1) THEN Outcome("ok", rs1, bs1)
    ELSE Outcome("integrity_error", rs0, bs1)

\* db.commit(): the flush is applied if every CHECK constraint holds on the
\* written rows, otherwise the transaction is rolled back.
commit(rs0, bs0, rs1, bs1) ==
    IF TableArgsHold(rs1) THEN Outcome("ok", rs1, bs1)
    ELSE Outcome("integrity_error", rs0, bs0)

Reject(res, rs, bs) == Outcome(res, rs, bs)

flush_ride_nothing(rs, r, snap, new) == rs

\* The UPDATE a flush emits for a Ride object: only the attributes the
\* handler changed on the loaded object `snap` are written to the row.
flush_ride(rs, r, snap, new) ==
    [rs EXCEPT ![r] =
        [@ EXCEPT
            !.seats_total = IF new.seats_total # snap.seats_total
                            THEN new.seats_total ELSE @,
            !.seats_available = IF new.seats_available # snap.seats_available
                                THEN new.seats_available ELSE @,
            !.price_share = IF new.price_share # snap.price_share
                            THEN new.price_share ELSE @,
            !.status = IF new.status # snap.status THEN new.status ELSE @]]

\* ------------------------------------------------------------ create_ride
validate_seats_total(v) == v >= 1 /\ v <= MaxSeats

validate_price(v) == v >= 0 /\ v <= MaxPrice

initial_status_open(ride_type) == "open"

\* requested for a passenger's request, open for a driver's offer
initial_status(ride_type) ==
    IF ride_type = "request" THEN "requested" ELSE "open"

create_ride(rs, bs, u, ride_type, seats_total, price_share) ==
    IF ~validate_seats_total(seats_total) \/ ~validate_price(price_share)
    THEN Reject("validation_error", rs, bs)
    ELSE commit(rs, bs,
                Append(rs, [driver_id |-> u,
                            seats_total |-> seats_total,
                            seats_available |-> seats_total,
                            price_share |-> price_share,
                            status |-> initial_status(ride_type),
                            deleted |-> FALSE]),
                bs)

\* --------------------------------------------------------- create_booking
validate_seats(v) == v >= 1 /\ v <= MaxSeatsReserved

booking_rules_any_status(ride, u) ==
    IF ride.driver_id = u THEN "own_ride" ELSE "ok"

booking_rules_anyone(ride, u) ==
    IF ride.status \in TerminalRide THEN "ride_closed" ELSE "ok"

booking_rules_cancelled_only(ride, u) ==
    IF ride.driver_id = u THEN "own_ride"
    ELSE IF ride.status \in {"cancelled"} THEN "ride_closed"
    ELSE "ok"

\* the checks made on the loaded ride before the duplicate query
booking_rules(ride, u) ==
    IF ride.driver_id = u THEN "own_ride"
    ELSE IF ride.status \in TerminalRide THEN "ride_closed"
    ELSE "ok"

existing_booking_confirmed(bs, u, r) ==
    \E b \in BookingsOf(bs, r) :
        bs[b].passenger_id = u /\ bs[b].status \in {"confirmed"}

\* the query for an active booking of this user on this ride
existing_booking(bs, u, r) ==
    \E b \in BookingsOf(bs, r) :
        bs[b].passenger_id = u /\ bs[b].status \in {"pending", "confirmed"}

not_enough_seats_lenient(ride, k) == k > ride.seats_available + 1

not_enough_seats(ride, k) == k > ride.seats_available

ride_after_booking_strict(ride, k) ==
    LET avail == ride.seats_available - k
        st1 == IF avail < 0 THEN "full" ELSE ride.status
        st2 == IF st1 = "requested" /\ avail > 0 THEN "open" ELSE st1
    IN [ride EXCEPT !.seats_available = avail, !.status = st2]

\* the assignments without the step from requested to open
ride_after_booking_keeps_requested(ride, k) ==
    LET avail == ride.seats_available - k
    IN [ride EXCEPT !.seats_available = avail,
                    !.status = IF avail <= 0 THEN "full" ELSE @]

\* the ride object after the handler's assignments
ride_after_booking(ride, k) ==
    LET avail == ride.seats_available - k
        st1 == IF avail <= 0 THEN "full" ELSE ride.status
        st2 == IF st1 = "requested" /\ avail > 0 THEN "open" ELSE st1
    IN [ride EXCEPT !.seats_available = avail, !.status = st2]

new_booking_unpaid(ride, u, r, k) ==
    [ride_id |-> r, passenger_id |-> u, seats_reserved |-> k,
     amount_paid |-> 0, status |-> "pending"]

\* Booking(..., amount_paid = seats_reserved * ride.price_share, "pending")
new_booking(ride, u, r, k) ==
    [ride_id |-> r, passenger_id |-> u, seats_reserved |-> k,
     amount_paid |-> k * ride.price_share, status |-> "pending"]

\* db.add(new_booking); ...; await db.commit()  on the ride loaded as snap
create_booking_commit(rs, bs, snap, u, r, k) ==
    IF r \notin RideIds(rs) THEN Reject("integrity_error", rs, bs)
    ELSE commit(rs, bs,
                flush_ride(rs, r, snap, ride_after_booking(snap, k)),
                Append(bs, new_booking(snap, u, r, k)))

create_booking(rs, bs, u, r, k) ==
    IF ~validate_seats(k) THEN Reject("validation_error", rs, bs)
    ELSE IF r \notin RideIds(rs) THEN Reject("not_found", rs, bs)
    ELSE IF booking_rules(rs[r], u) # "ok"
         THEN Reject(booking_rules(rs[r], u), rs, bs)
    ELSE IF existing_booking(bs, u, r) THEN Reject("conflict", rs, bs)
    ELSE IF not_enough_seats(rs[r], k) THEN Reject("not_enough_seats", rs, bs)
    ELSE create_booking_commit(rs, bs, rs[r], u, r, k)

\* -------------------------------------------------- update_booking_status
ride_after_cancel_one_seat(ride, booking) ==
    LET avail == ride.seats_available + 1
    IN [ride EXCEPT
          !.seats_available = avail,
          !.status = IF ride.status = "full" /\ avail > 0
                     THEN (IF ride.status # "requested" THEN "open"
                           ELSE "requested")
                     ELSE @]

ride_after_cancel_keeps_status(ride, booking) ==
    [ride EXCEPT
        !.seats_available = ride.seats_available + booking.seats_reserved]

\* a full ride with seats again goes back to requested
ride_after_cancel_requested(ride, booking) ==
    LET avail == ride.seats_available + booking.seats_reserved
    IN [ride EXCEPT
          !.seats_available = avail,
          !.status = IF ride.status = "full" /\ avail > 0
                     THEN "requested" ELSE @]

\* the ride object after a cancellation frees the booking's seats
ride_after_cancel(ride, booking) ==
    LET avail == ride.seats_available + booking.seats_reserved
    IN [ride EXCEPT
          !.seats_available = avail,
          !.status = IF ride.status = "full" /\ avail > 0
                     THEN (IF ride.status # "requested" THEN "open"
                           ELSE "requested")
                     ELSE @]

status_transition_reopen(cur, new_status, is_driver) ==
    IF cur = "cancelled" THEN "booking_cancelled"
    ELSE IF new_status = "confirmed" /\ ~is_driver THEN "forbidden"
    ELSE IF new_status = "confirmed" /\ cur # "pending" THEN "bad_transition"
    ELSE IF new_status = "completed" /\ ~is_driver THEN "forbidden"
    ELSE IF new_status = "completed" /\ cur # "confirmed" THEN "bad_transition"
    ELSE IF new_status = "pending" THEN "bad_transition"
    ELSE "ok"

status_transition_recancel(cur, new_status, is_driver) ==
    IF cur = "completed" THEN "booking_completed"
    ELSE IF new_status = "confirmed" /\ ~is_driver THEN "forbidden"
    ELSE IF new_status = "confirmed" /\ cur # "pending" THEN "bad_transition"
    ELSE IF new_status = "completed" /\ ~is_driver THEN "forbidden"
    ELSE IF new_status = "completed" /\ cur # "confirmed" THEN "bad_transition"
    ELSE IF new_status = "pending" THEN "bad_transition"
    ELSE "ok"

status_transition_complete_any(cur, new_status, is_driver) ==
    IF cur = "completed" THEN "booking_completed"
    ELSE IF cur = "cancelled" THEN "booking_cancelled"
    ELSE IF new_status = "confirmed" /\ ~is_driver THEN "forbidden"
    ELSE IF new_status = "confirmed" /\ cur # "pending" THEN "bad_transition"
    ELSE IF new_status = "completed" /\ ~is_driver THEN "forbidden"
    ELSE IF new_status = "pending" THEN "bad_transition"
    ELSE "ok"

\* role and transition validation; "ok" when the request may proceed
status_transition(cur, new_status, is_driver) ==
    IF cur = "completed" THEN "booking_completed"
    ELSE IF cur = "cancelled" THEN "booking_cancelled"
    ELSE IF new_status = "confirmed" /\ ~is_driver THEN "forbidden"
    ELSE IF new_status = "confirmed" /\ cur # "pending" THEN "bad_transition"
    ELSE IF new_status = "completed" /\ ~is_driver THEN "forbidden"
    ELSE IF new_status = "completed" /\ cur # "confirmed" THEN "bad_transition"
    ELSE IF new_status = "pending" THEN "bad_transition"
    ELSE "ok"

can_access_anyone(booking, ride, u) == TRUE

\* the caller is the booking's passenger or the ride's driver
can_access(booking, ride, u) ==
    booking.passenger_id = u \/ ride.driver_id = u

update_booking_status(rs, bs, b, new_status, u) ==
    IF new_status \notin BookingStatuses THEN Reject("validation_error", rs, bs)
    ELSE IF b \notin BookingIds(bs) \/ bs[b].ride_id \notin RideIds(rs)
         THEN Reject("not_found", rs, bs)
    ELSE
      LET booking == bs[b]
          r == booking.ride_id
          ride == rs[r]
          verdict == status_transition(booking.status, new_status,
                                       ride.driver_id = u)
          bs1 == [bs EXCEPT ![b].status = new_status]
          rs1 == IF new_status = "cancelled"
                    /\ booking.status \in {"pending", "confirmed"}
                 THEN flush_ride(rs, r, ride, ride_after_cancel(ride, booking))
                 ELSE rs
      IN IF ~can_access(booking, ride, u) THEN Reject("forbidden", rs, bs)
         ELSE IF verdict # "ok" THEN Reject(verdict, rs, bs)
         ELSE commit(rs, bs, rs1, bs1)

\* --------------------------------------------------------- cancel_booking
cancel_booking_commit_no_refund(rs, bs, snap, b) ==
    commit(rs, bs, rs, [bs EXCEPT ![b].status = "cancelled"])

\* booking.status = "cancelled"; ...; await db.commit()  on the ride loaded
\* as snap
cancel_booking_commit(rs, bs, snap, b) ==
    commit(rs, bs,
           flush_ride(rs, bs[b].ride_id, snap, ride_after_cancel(snap, bs[b])),
           [bs EXCEPT ![b].status = "cancelled"])

cancel_booking(rs, bs, b, u) ==
    IF b \notin BookingIds(bs) \/ bs[b].ride_id \notin RideIds(rs)
    THEN Reject("not_found", rs, bs)
    ELSE
      LET booking == bs[b]
          r == booking.ride_id
          ride == rs[r]
      IN IF ~can_access(booking, ride, u) THEN Reject("forbidden", rs, bs)
         ELSE IF booking.status = "completed"
              THEN Reject("booking_completed", rs, bs)
         ELSE IF booking.status = "cancelled"
              THEN Reject("booking_cancelled", rs, bs)
         ELSE cancel_booking_commit(rs, bs, ride, b)

\* ------------------------------------------------------------ update_ride
\* patch fields are None when the client left them unset
validate_patch(patch) ==
    /\ patch.seats_total # None => validate_seats_total(patch.seats_total)
    /\ patch.price_share # None => validate_price(patch.price_share)

apply_fields_refill(ride, patch) ==
    [ride EXCEPT
        !.seats_total = IF patch.seats_total # None
                        THEN patch.seats_total ELSE @,
        !.price_share = IF patch.price_share # None
                        THEN patch.price_share ELSE @,
        !.seats_available = ride.seats_total]

\* setattr(ride, field, value) for every field of the patch
apply_fields(ride, patch) ==
    [ride EXCEPT
        !.seats_total = IF patch.seats_total # None
                        THEN patch.seats_total ELSE @,
        !.price_share = IF patch.price_share # None
                        THEN patch.price_share ELSE @]

\* the seats_total branch, run on the object the patch was already applied to
adjust_seats_available(ride, patch) ==
    LET seats_booked == ride.seats_total - ride.seats_available
    IN [ride EXCEPT !.seats_available = patch.seats_total - seats_booked]

cannot_update_cancelled(ride) == ride.status \in {"cancelled"}

\* if ride.status in ["completed", "cancelled"]
cannot_update(ride) == ride.status \in {"completed", "cancelled"}

update_ride(rs, bs, r, patch, u) ==
    IF ~validate_patch(patch) THEN Reject("validation_error", rs, bs)
    ELSE IF r \notin RideIds(rs) THEN Reject("not_found", rs, bs)
    ELSE IF rs[r].driver_id # u THEN Reject("forbidden", rs, bs)
    ELSE IF cannot_update(rs[r]) THEN Reject("ride_closed", rs, bs)
    ELSE
      LET ride1 == apply_fields(rs[r], patch)
          ride2 == IF patch.seats_total # None
                   THEN adjust_seats_available(ride1, patch) ELSE ride1
      IN IF patch.seats_total # None /\ ride2.seats_available < 0
         THEN Reject("seats_below_booked", rs, bs)
         ELSE commit(rs, bs, flush_ride(rs, r, rs[r], ride2), bs)

\* ------------------------------------------------------------ delete_ride
has_active_bookings(bs, r) ==
    \E b \in BookingsOf(bs, r) : bs[b].status \in ActiveBooking

\* ride.bookings and len(ride.bookings) > 0
has_bookings(bs, r) == BookingsOf(bs, r) # {}

delete_ride(rs, bs, r, u) ==
    IF r \notin RideIds(rs) THEN Reject("not_found", rs, bs)
    ELSE IF rs[r].driver_id # u THEN Reject("forbidden", rs, bs)
    ELSE IF has_bookings(bs, r)
         THEN commit(rs, bs, [rs EXCEPT ![r].status = "cancelled"], bs)
         ELSE commit(rs, bs, [rs EXCEPT ![r].deleted = TRUE], bs)

\* ----------------------------------------------------- update_ride_status
validate_status_transition_any(v) == v \in RideStatuses

validate_status_transition(v) == v \in {"cancelled", "completed"}

propagate_status_active(bs, r, target) ==
    [b \in BookingIds(bs) |->
        IF bs[b].ride_id = r /\ bs[b].status \in ActiveBooking
        THEN [bs[b] EXCEPT !.status = target] ELSE bs[b]]

propagate_status_completed_only(bs, r, target) ==
    [b \in BookingIds(bs) |->
        IF bs[b].ride_id = r /\ target = "completed"
        THEN [bs[b] EXCEPT !.status = target] ELSE bs[b]]

\* every booking of the ride takes the ride's new status
propagate_status(bs, r, target) ==
    [b \in BookingIds(bs) |->
        IF bs[b].ride_id = r THEN [bs[b] EXCEPT !.status = target] ELSE bs[b]]

update_ride_status(rs, bs, r, target, u) ==
    IF ~validate_status_transition(target)
    THEN Reject("validation_error", rs, bs)
    ELSE IF r \notin RideIds(rs) THEN Reject("not_found", rs, bs)
    ELSE IF rs[r].driver_id # u THEN Reject("forbidden", rs, bs)
    ELSE commit(rs, bs, [rs EXCEPT ![r].status = target],
                propagate_status(bs, r, target))


\* ------------------------------------------------- update_ride_availability
\* The helper of booking.py that recomputes a ride from its bookings:
\* seats_available = seats_total - sum of pending and confirmed seats, then
\* full when nothing is left, open when a full ride has seats again.  No
\* handler calls it.
update_ride_availability(rs, bs, r) ==
    LET avail == rs[r].seats_total - ActiveSeats(bs, r)
        st == IF avail <= 0 /\ rs[r].status # "full" THEN "full"
              ELSE IF avail > 0 /\ rs[r].status = "full" THEN "open"
              ELSE rs[r].status
    IN [rs EXCEPT ![r].seats_available = avail, ![r].status = st]

\* ------------------------------------------------------------ read requests
\* The GET handlers only select: they return a body and leave the tables.
ReadOutcome(res, rs, bs, body) ==
    [res |-> res, rides |-> rs, bookings |-> bs, body |-> body]

\* GET /rides/search: rides that are not cancelled or completed and pass the
\* optional filters (seats >= 1 and max_price >= 0 are query constraints)
search_rides(rs, bs, seats, max_price) ==
    IF (seats # None /\ seats < 1) \/ (max_price # None /\ max_price < 0)
    THEN ReadOutcome("validation_error", rs, bs, {})
    ELSE ReadOutcome("ok", rs, bs,
            {r \in RideIds(rs) :
                /\ rs[r].status \notin {"cancelled", "completed"}
                /\ seats # None => rs[r].seats_available >= seats
                /\ max_price # None => rs[r].price_share <= max_price})

\* GET /rides/{ride_id}
get_ride(rs, bs, r) ==
    IF r \notin RideIds(rs) THEN ReadOutcome("not_found", rs, bs, {})
    ELSE ReadOutcome("ok", rs, bs, {rs[r]})

\* an enum filter the client left unset
NoFilter == "any"

\* GET /rides/: optional filters on type, status and available seats
list_rides(rs, bs, ride_type, status, min_seats) ==
    IF min_seats # None /\ min_seats < 1
    THEN ReadOutcome("validation_error", rs, bs, {})
    ELSE ReadOutcome("ok", rs, bs,
            {r \in RideIds(rs) :
                /\ ride_type = "request" => rs[r].status = "requested"
                /\ ride_type = "offer" => rs[r].status # "requested"
                /\ status # NoFilter => rs[r].status = status
                /\ min_seats # None => rs[r].seats_available >= min_seats})

RECURSIVE SumAmount(_, _)
SumAmount(bs, S) ==
    IF S = {} THEN 0
    ELSE LET b == CHOOSE x \in S : TRUE
         IN bs[b].amount_paid + SumAmount(bs, S \ {b})

\* the loop body with every row's amount added to total_spent
process_row_spend_all(acc, row) ==
    [acc EXCEPT
        !.total_bookings = @ + row.count,
        !.pending_bookings = IF row.status = "pending" THEN row.count ELSE @,
        !.confirmed_bookings =
            IF row.status = "confirmed" THEN row.count ELSE @,
        !.completed_bookings =
            IF row.status = "completed" THEN row.count ELSE @,
        !.cancelled_bookings =
            IF row.status = "cancelled" THEN row.count ELSE @,
        !.total_spent = @ + row.total_amount]

\* select status, count(id), sum(amount_paid) ... where passenger_id = u
\* group by status: one row for each status the user's bookings have
status_counts(bs, u) ==
    LET mine == {b \in BookingIds(bs) : bs[b].passenger_id = u}
        group(st) == {b \in mine : bs[b].status = st}
    IN {[status |-> st, count |-> Cardinality(group(st)),
         total_amount |-> SumAmount(bs, group(st))] :
            st \in {bs[b].status : b \in mine}}

\* the body of 'for row in status_counts'
process_row(acc, row) ==
    [acc EXCEPT
        !.total_bookings = @ + row.count,
        !.pending_bookings = IF row.status = "pending" THEN row.count ELSE @,
        !.confirmed_bookings =
            IF row.status = "confirmed" THEN row.count ELSE @,
        !.completed_bookings =
            IF row.status = "completed" THEN row.count ELSE @,
        !.cancelled_bookings =
            IF row.status = "cancelled" THEN row.count ELSE @,
        !.total_spent =
            IF row.status = "completed" THEN @ + row.total_amount ELSE @]

RECURSIVE process_rows(_, _)
process_rows(acc, rows) ==
    IF rows = {} THEN acc
    ELSE LET row == CHOOSE x \in rows : TRUE
         IN process_rows(process_row(acc, row), rows \ {row})

\* select sum(amount_paid) from bookings join rides where the ride's driver
\* is u and the booking is completed
earnings_result(rs, bs, u) ==
    SumAmount(bs, {b \in BookingIds(bs) :
                      /\ bs[b].ride_id \in RideIds(rs)
                      /\ rs[bs[b].ride_id].driver_id = u
                      /\ bs[b].status = "completed"})

\* GET /bookings/stats/summary
get_booking_stats(rs, bs, u) ==
    LET zero == [total_bookings |-> 0, pending_bookings |-> 0,
                 confirmed_bookings |-> 0, completed_bookings |-> 0,
                 cancelled_bookings |-> 0, total_spent |-> 0,
                 total_earned |-> 0]
        stats == process_rows(zero, status_counts(bs, u))
    IN ReadOutcome("ok", rs, bs,
          [stats EXCEPT !.total_earned = earnings_result(rs, bs, u)])

\* --------------------------------------------------------- proximity search
\* ST_Distance of two points, in metres
ST_Distance(a, b) == IF a >= b THEN a - b ELSE b - a

ST_DWithin(a, b, meters) == ST_Distance(a, b) <= meters

\* the ordering expression taken from the origin for every search_type
distance_expr_origin(ride, point, search_type) ==
    ST_Distance(ride.origin_geom, point)

\* the proximity filter of the search_type
proximity_filter(ride, point, radius_meters, search_type) ==
    IF search_type = "origin"
    THEN ST_DWithin(ride.origin_geom, point, radius_meters)
    ELSE IF search_type = "destination"
    THEN ST_DWithin(ride.destination_geom, point, radius_meters)
    ELSE \/ ST_DWithin(ride.origin_geom, point, radius_meters)
         \/ ST_DWithin(ride.destination_geom, point, radius_meters)

\* the distance the rows are ordered by; func.least for 'both'
distance_expr(ride, point, search_type) ==
    IF search_type = "origin" THEN ST_Distance(ride.origin_geom, point)
    ELSE IF search_type = "destination"
    THEN ST_Distance(ride.destination_geom, point)
    ELSE LET origin_dist == ST_Distance(ride.origin_geom, point)
             dest_dist == ST_Distance(ride.destination_geom, point)
         IN IF origin_dist <= dest_dist THEN origin_dist ELSE dest_dist

\* the constraints FastAPI checks on the query parameters
validate_nearby(radius_km, seats, max_price, page, page_size) ==
    /\ radius_km >= 1 /\ radius_km <= MaxRadiusKm
    /\ seats # None => seats >= 1
    /\ max_price # None => max_price >= 0
    /\ page >= 1
    /\ page_size >= 1 /\ page_size <= MaxPageSize

\* order_by('distance'): the orders of the rows S in which no row comes
\* before a nearer one; rows at the same distance come in any order
order_by_distance(rs, S, point, search_type) ==
    {s \in [1..Cardinality(S) -> S] :
        /\ \A i, j \in 1..Cardinality(S) : i # j => s[i] # s[j]
        /\ \A i, j \in 1..Cardinality(S) :
              i < j => distance_expr(rs[s[i]], point, search_type)
                          <= distance_expr(rs[s[j]], point, search_type)}

NearbyOutcome(res, rs, bs, body, total) ==
    [res |-> res, rides |-> rs, bookings |-> bs, body |-> body,
     total |-> total]

\* GET /rides/nearby: the answers the handler can give, one for each order
\* the database may return rows of equal distance in
search_rides_nearby(rs, bs, point, radius_km, search_type, seats, max_price, page, page_size) ==
    IF ~validate_nearby(radius_km, seats, max_price, page, page_size)
    THEN {NearbyOutcome("validation_error", rs, bs, <<>>, 0)}
    ELSE IF search_type \notin {"origin", "destination", "both"}
    THEN {NearbyOutcome("bad_request", rs, bs, <<>>, 0)}
    ELSE LET radius_meters == radius_km * 1000
             rows == {r \in RideIds(rs) :
                        /\ rs[r].status \notin {"cancelled", "completed"}
                        /\ proximity_filter(rs[r], point, radius_meters,
                                            search_type)
                        /\ seats # None => rs[r].seats_available >= seats
                        /\ max_price # None => rs[r].price_share <= max_price}
             total == Cardinality(rows)
             offset == (page - 1) * page_size
             last_row == IF offset + page_size <= total
                         THEN offset + page_size ELSE total
         IN {NearbyOutcome("ok", rs, bs, SubSeq(s, offset + 1, last_row),
                           total) :
                s \in order_by_distance(rs, rows, point, search_type)}

\* ------------------------------------------------------------- requests
\* `last` is the request that was served last: who asked for what.  A
\* rejected request writes nothing, so it leaves every variable as it was.
\* pre is the ride's seats_available before a served create_booking; chain
\* is that value carried to a cancellation of the same booking that is the
\* next request served.
\* was is the status the request found on the row it addressed; closed is
\* the number of cancelled bookings update_ride_status found on the ride.
Request(op, res, u, r, b, target, was, pre, chain) ==
    IF res = "ok"
    THEN [op |-> op, res |-> res, user |-> u, ride |-> r, booking |-> b,
          target |-> target, was |-> was, pre |-> pre, chain |-> chain,
          closed |-> 0]
    ELSE last

CancelledOn(bs, r) ==
    Cardinality({b \in BookingsOf(bs, r) : bs[b].status = "cancelled"})

NoSnap == [driver_id |-> 0, seats_total |-> 0, seats_available |-> 0,
           price_share |-> 0, status |-> "none", deleted |-> FALSE]

IdleProc == [pc |-> "idle", user |-> 0, ride |-> 0, seats |-> 0,
             booking |-> 0, snap |-> NoSnap, res |-> "none"]

ChainOf(b) ==
    IF last.op = "createBooking" /\ last.res = "ok" /\ last.booking = b
    THEN last.pre ELSE None

\* the limiter before any geocoding request: SimpleRateLimiter.__init__
LimiterIdle ==
    /\ requests = [ip \in ClientIPs |-> <<>>]
    /\ now = 0
    /\ admitted = [ip \in ClientIPs |-> <<>>]

Init ==
    /\ rides = <<>>
    /\ bookings = <<>>
    /\ last = Request("init", "ok", 0, 0, 0, "none", "none", None, None)
    /\ procs = [p \in Procs |-> IdleProc]
    /\ LimiterIdle

CreateRide ==
    \E u \in Drivers, t \in RideTypes, n \in SeatsTotalInputs, p \in PriceInputs :
        LET o == create_ride(rides, bookings, u, t, n, p)
        IN /\ o.res = "ok" => (Len(rides) < MaxRides /\ n <= MaxSeatsTotal)
           /\ rides' = o.rides
           /\ bookings' = o.bookings
           /\ last' = Request("createRide", o.res, u, Len(o.rides), 0, t,
                              "none", None, None)
           /\ UNCHANGED <<procs, limiter>>

CreateBooking ==
    \E u \in Users, r \in 1..MaxRides, k \in SeatsReservedInputs :
        LET o == create_booking(rides, bookings, u, r, k)
        IN /\ o.res = "ok" => Len(bookings) < MaxBookings
           /\ rides' = o.rides
           /\ bookings' = o.bookings
           /\ last' = Request("createBooking", o.res, u, r, Len(o.bookings),
                              "pending",
                              IF o.res = "ok" THEN rides[r].status ELSE "none",
                              IF o.res = "ok" THEN rides[r].seats_available
                              ELSE None,
                              None)
           /\ UNCHANGED <<procs, limiter>>

StatusInputs == BookingStatuses \cup {"open"}

UpdateBookingStatus ==
    \E b \in 1..MaxBookings, t \in StatusInputs, u \in Users :
        LET o == update_booking_status(rides, bookings, b, t, u)
        IN /\ rides' = o.rides
           /\ bookings' = o.bookings
           /\ last' = Request("setBookingStatus", o.res, u,
                              IF o.res = "ok" THEN bookings[b].ride_id ELSE 0,
                              b, t,
                              IF o.res = "ok" THEN bookings[b].status
                              ELSE "none",
                              None,
                              IF t = "cancelled" THEN ChainOf(b) ELSE None)
           /\ UNCHANGED <<procs, limiter>>

CancelBooking ==
    \E b \in 1..MaxBookings, u \in Users :
        LET o == cancel_booking(rides, bookings, b, u)
        IN /\ rides' = o.rides
           /\ bookings' = o.bookings
           /\ last' = Request("cancelBooking", o.res, u,
                              IF o.res = "ok" THEN bookings[b].ride_id ELSE 0,
                              b, "cancelled",
                              IF o.res = "ok" THEN bookings[b].status
                              ELSE "none",
                              None, ChainOf(b))
           /\ UNCHANGED <<procs, limiter>>

\* a patch sets the seat count, the price, or neither
Patches ==
    [seats_total : SeatsTotalInputs \cup {None}, price_share : {None}]
    \cup [seats_total : {None}, price_share : PriceInputs]

UpdateRide ==
    \E r \in 1..MaxRides, patch \in Patches, u \in Users :
        LET o == update_ride(rides, bookings, r, patch, u)
        IN /\ (o.res = "ok" /\ patch.seats_total # None)
                 => patch.seats_total <= MaxSeatsTotal
           /\ rides' = o.rides
           /\ bookings' = o.bookings
           /\ last' = Request("updateRide", o.res, u, r, 0, "none",
                              IF o.res = "ok" THEN rides[r].status ELSE "none",
                              None, None)
           /\ UNCHANGED <<procs, limiter>>

DeleteRide ==
    \E r \in 1..MaxRides, u \in Users :
        LET o == delete_ride(rides, bookings, r, u)
        IN /\ rides' = o.rides
           /\ bookings' = o.bookings
           /\ last' = Request("deleteRide", o.res, u, r, 0, "none",
                              IF o.res = "ok" THEN rides[r].status ELSE "none",
                              None, None)
           /\ UNCHANGED <<procs, limiter>>

RideStatusInputs == RideStatuses

UpdateRideStatus ==
    \E r \in 1..MaxRides, t \in RideStatusInputs, u \in Users :
        LET o == update_ride_status(rides, bookings, r, t, u)
        IN /\ rides' = o.rides
           /\ bookings' = o.bookings
           /\ last' = IF o.res = "ok"
                       THEN [Request("setStatus", o.res, u, r, 0, t,
                                     rides[r].status, None, None)
                             EXCEPT !.closed = CancelledOn(bookings, r)]
                       ELSE last
           /\ UNCHANGED <<procs, limiter>>

\* values a client may send as a seat filter
SeatFilters == (0..MaxSeatsTotal) \cup {None}

SearchRides ==
    \E k \in SeatFilters, p \in {None, 0, -1} :
        LET o == search_rides(rides, bookings, k, p)
        IN /\ rides' = o.rides
           /\ bookings' = o.bookings
           /\ UNCHANGED <<last, procs, limiter>>

GetRide ==
    \E r \in 1..MaxRides :
        LET o == get_ride(rides, bookings, r)
        IN /\ rides' = o.rides
           /\ bookings' = o.bookings
           /\ UNCHANGED <<last, procs, limiter>>

\* status filters a client may send to the listing
StatusFilters == {NoFilter, "open", "full"}

ListRides ==
    \E t \in RideTypes \cup {NoFilter}, st \in StatusFilters, k \in {None, 1} :
        LET o == list_rides(rides, bookings, t, st, k)
        IN /\ rides' = o.rides
           /\ bookings' = o.bookings
           /\ UNCHANGED <<last, procs, limiter>>

GetBookingStats ==
    \E u \in Users :
        LET o == get_booking_stats(rides, bookings, u)
        IN /\ rides' = o.rides
           /\ bookings' = o.bookings
           /\ UNCHANGED <<last, procs, limiter>>

Next ==
    \/ CreateRide
    \/ CreateBooking
    \/ UpdateBookingStatus
    \/ CancelBooking
    \/ UpdateRide
    \/ DeleteRide
    \/ UpdateRideStatus
    \/ SearchRides
    \/ GetRide
    \/ ListRides
    \/ GetBookingStats

Spec == Init /\ [][Next]_vars

\* ------------------------------------------------------ concurrent requests
\* A request suspends at each await: create_booking after the ride is
\* loaded, after the duplicate query and at the commit; a cancellation
\* after the booking and its ride are loaded and at the commit.  Between
\* the awaits of one request the other requests run, each on the objects
\* it loaded.  A request can also end at an await without committing.
InitConc ==
    /\ \E u \in Drivers, t \in RideTypes, n \in 1..MaxSeatsTotal, p \in Prices :
          LET rs == create_ride(<<>>, <<>>, u, t, n, p).rides
          IN \/ rides = rs /\ bookings = <<>>
             \/ \E v \in Users, k \in 1..n :
                   LET o == create_booking(rs, <<>>, v, 1, k)
                   IN o.res = "ok" /\ rides = o.rides /\ bookings = o.bookings
    /\ last = Request("init", "ok", 0, 0, 0, "none", "none", None, None)
    /\ procs = [p \in Procs |-> IdleProc]
    /\ LimiterIdle

Finish(p, res) ==
    procs' = [procs EXCEPT ![p].pc = "done", ![p].res = res]

\* select(Ride) and the checks on the loaded object
LoadRide(p) ==
    /\ procs[p].pc = "idle"
    /\ \E u \in Users, r \in 1..MaxRides, k \in SeatsReservedInputs :
        LET req == [procs[p] EXCEPT !.user = u, !.ride = r, !.seats = k]
            res == IF ~validate_seats(k) THEN "validation_error"
                   ELSE IF r \notin RideIds(rides) THEN "not_found"
                   ELSE booking_rules(rides[r], u)
        IN procs' = [procs EXCEPT ![p] =
                IF res = "ok"
                THEN [req EXCEPT !.pc = "loaded", !.snap = rides[r]]
                ELSE [req EXCEPT !.pc = "done", !.res = res]]
    /\ UNCHANGED <<rides, bookings, last, limiter>>

\* select(Booking) for an active booking, then the seat check on the object
CheckExisting(p) ==
    /\ procs[p].pc = "loaded"
    /\ IF existing_booking(bookings, procs[p].user, procs[p].ride)
       THEN Finish(p, "conflict")
       ELSE IF not_enough_seats(procs[p].snap, procs[p].seats)
       THEN Finish(p, "not_enough_seats")
       ELSE procs' = [procs EXCEPT ![p].pc = "checked"]
    /\ UNCHANGED <<rides, bookings, last, limiter>>

\* db.commit() of the new booking and of the ride object's changes
CommitBooking(p) ==
    /\ procs[p].pc = "checked"
    /\ Len(bookings) < MaxBookings
    /\ LET o == create_booking_commit(rides, bookings, procs[p].snap,
                                      procs[p].user, procs[p].ride,
                                      procs[p].seats)
       IN /\ rides' = o.rides
          /\ bookings' = o.bookings
          /\ Finish(p, o.res)
    /\ UNCHANGED <<last, limiter>>

\* select(Booking).join(Ride) and the checks of cancel_booking (the same as
\* those of update_booking_status for the target cancelled)
LoadBooking(p) ==
    /\ procs[p].pc = "idle"
    /\ \E b \in 1..MaxBookings, u \in Users :
        LET req == [procs[p] EXCEPT !.user = u, !.booking = b]
            res == IF b \notin BookingIds(bookings) THEN "not_found"
                   ELSE IF ~can_access(bookings[b],
                                       rides[bookings[b].ride_id], u)
                   THEN "forbidden"
                   ELSE status_transition(bookings[b].status, "cancelled",
                            rides[bookings[b].ride_id].driver_id = u)
        IN procs' = [procs EXCEPT ![p] =
                IF res = "ok"
                THEN [req EXCEPT !.pc = "found",
                                 !.ride = bookings[b].ride_id,
                                 !.snap = rides[bookings[b].ride_id]]
                ELSE [req EXCEPT !.pc = "done", !.res = res]]
    /\ UNCHANGED <<rides, bookings, last, limiter>>

\* db.commit() of the cancelled booking and of the ride object's changes
CommitCancel(p) ==
    /\ procs[p].pc = "found"
    /\ LET o == cancel_booking_commit(rides, bookings, procs[p].snap,
                                      procs[p].booking)
       IN /\ rides' = o.rides
          /\ bookings' = o.bookings
          /\ Finish(p, o.res)
    /\ UNCHANGED <<last, limiter>>

\* the request is cancelled at an await (client gone, timeout): the session
\* is closed without a commit
Abort(p) ==
    /\ procs[p].pc \in {"loaded", "checked", "found"}
    /\ procs' = [procs EXCEPT ![p].pc = "aborted", ![p].res = "timeout"]
    /\ UNCHANGED <<rides, bookings, last, limiter>>

NextConc ==
    \E p \in Procs :
        \/ LoadRide(p)
        \/ CheckExisting(p)
        \/ CommitBooking(p)
        \/ LoadBooking(p)
        \/ CommitCancel(p)
        \/ Abort(p)

SpecConc == InitConc /\ [][NextConc]_vars

\* --------------------------------------------------------- proximity search
\* places of rides and of search centres, in metres along the road
GeoPoints == {0, 1000, 2500}

SearchPoints == {0, 500}

\* Ride(..., origin_geom = the origin point, destination_geom = the
\* destination point): a ride row with its two geometry columns
geo_ride(u, seats_available, price_share, status, origin, destination) ==
    [driver_id |-> u, seats_total |-> 1, seats_available |-> seats_available,
     price_share |-> price_share, status |-> status, deleted |-> FALSE,
     origin_geom |-> origin, destination_geom |-> destination]

\* one-seat rides as the handlers leave them: free, booked or closed
GeoRides ==
    {geo_ride(u, 1, p, st, o, d) :
        u \in Drivers, p \in Prices, st \in {"open", "requested", "cancelled"},
        o \in GeoPoints, d \in {0, 2500}}
    \cup {geo_ride(u, 0, p, st, o, d) :
            u \in Drivers, p \in Prices, st \in {"full", "completed"},
            o \in GeoPoints, d \in {0, 2500}}

InitGeo ==
    /\ rides \in UNION {[1..n -> GeoRides] : n \in 0..MaxGeoRides}
    /\ bookings = <<>>
    /\ last = Request("init", "ok", 0, 0, 0, "none", "none", None, None)
    /\ procs = [p \in Procs |-> IdleProc]
    /\ LimiterIdle

SearchTypes == {"origin", "destination", "both", "nearest"}

\* page and page_size of a request: the default page, and pages of one row
Pages == {<<1, 10>>, <<1, 1>>, <<2, 1>>}

\* one search is answered; last keeps the request and the answer
SearchRidesNearby ==
    /\ last.op = "init"
    /\ \E point \in SearchPoints, radius_km \in 0..2, t \in SearchTypes,
          k \in {None, 1}, max_price \in {None, 0}, pg \in Pages :
        \E o \in search_rides_nearby(rides, bookings, point, radius_km, t, k,
                                     max_price, pg[1], pg[2]) :
            /\ rides' = o.rides
            /\ bookings' = o.bookings
            /\ last' = [op |-> "searchNearby", res |-> o.res,
                        point |-> point, radius_km |-> radius_km,
                        search_type |-> t, seats |-> k,
                        max_price |-> max_price, page |-> pg[1],
                        page_size |-> pg[2],
                        body |-> o.body, total |-> o.total]
            /\ UNCHANGED <<procs, limiter>>

NextGeo == SearchRidesNearby

SpecGeo == InitGeo /\ [][NextGeo]_vars

\* ------------------------------------------------ geocoding rate limiter
\* SpecRate  serves geocoding requests of several clients at once; every
\*           request asks the shared limiter before it is proxied.
\*
\* [t for t in request_times if t > cutoff_time]
recent(request_times, cutoff_time) ==
    SelectSeq(request_times, LAMBDA t : t > cutoff_time)

\* variant: the quota is tested with > instead of >=
limit_exceeded_above(request_times) == Len(request_times) > max_requests

limit_exceeded(request_times) == Len(request_times) >= max_requests

\* SimpleRateLimiter.check_rate_limit at clock reading clock.  The body runs
\* under self._lock and awaits nothing, so a call is one step.
check_rate_limit(reqs, client_ip, clock) ==
    LET cutoff_time == clock - window_seconds
        request_times == recent(reqs[client_ip], cutoff_time)
    IN IF limit_exceeded(request_times)
       THEN [allowed |-> FALSE,
             requests |-> [reqs EXCEPT ![client_ip] = request_times]]
       ELSE [allowed |-> TRUE,
             requests |-> [reqs EXCEPT ![client_ip] = Append(request_times, clock)]]

GeoIdle == [pc |-> "idle", client_ip |-> 0, res |-> "none"]

InitRate ==
    /\ rides = <<>>
    /\ bookings = <<>>
    /\ last = Request("init", "ok", 0, 0, 0, "none", "none", None, None)
    /\ procs = [p \in Procs |-> GeoIdle]
    /\ LimiterIdle

\* a geocoding request arrives: client_ip = get_client_ip(request)
ReceiveGeocode(p) ==
    /\ procs[p].pc = "idle"
    /\ \E ip \in ClientIPs :
          procs' = [procs EXCEPT ![p] = [pc |-> "waiting", client_ip |-> ip,
                                         res |-> "none"]]
    /\ UNCHANGED <<rides, bookings, last, limiter>>

\* if not await rate_limiter.check_rate_limit(client_ip): raise 429
CheckRateLimit(p) ==
    /\ procs[p].pc = "waiting"
    /\ LET o == check_rate_limit(requests, procs[p].client_ip, now)
       IN /\ requests' = o.requests
          /\ admitted' = IF o.allowed
                         THEN [admitted EXCEPT ![procs[p].client_ip] = Append(@, now)]
                         ELSE admitted
          /\ procs' = [procs EXCEPT ![p].pc = "served",
                                    ![p].res = IF o.allowed THEN "ok"
                                               ELSE "too_many_requests"]
    /\ UNCHANGED <<rides, bookings, last, now>>

\* the response is sent and the worker takes the next request
RespondGeocode(p) ==
    /\ procs[p].pc = "served"
    /\ procs' = [procs EXCEPT ![p] = GeoIdle]
    /\ UNCHANGED <<rides, bookings, last, limiter>>

\* datetime.now() advances
Tick ==
    /\ now < MaxClock
    /\ now' = now + 1
    /\ UNCHANGED <<rides, bookings, last, procs, requests, admitted>>

NextRate ==
    \/ \E p \in Procs : ReceiveGeocode(p)
    \/ \E p \in Procs : CheckRateLimit(p)
    \/ \E p \in Procs : RespondGeocode(p)
    \/ Tick

SpecRate == InitRate /\ [][NextRate]_vars

\* ================================================================ claims
ActiveBookingsBy(u, r) ==
    {b \in BookingIds(bookings) :
        /\ bookings[b].ride_id = r
        /\ bookings[b].passenger_id = u
        /\ bookings[b].status \in ActiveBooking}

\* C1: every stored ride has 0 <= seats_available <= seats_total.
SeatsInRange ==
    \A r \in RideIds(rides) :
        0 <= rides[r].seats_available
        /\ rides[r].seats_available <= rides[r].seats_total

\* C1 witness: a booking has taken the last seats of a ride.
SeatsInRangeWitness ==
    /\ last.op = "createBooking"
    /\ rides[last.ride].seats_available = 0
    /\ rides[last.ride].seats_total = MaxSeatsTotal

\* C2: seats_available equals seats_total minus the seats of the ride's
\* pending and confirmed bookings, for every ride.
SeatsMatchLedger ==
    \A r \in RideIds(rides) :
        rides[r].seats_available
            = rides[r].seats_total - ActiveSeats(bookings, r)

\* C3: two users booking the last seats of one ride concurrently, both
\* requests running to their end: exactly one request is served, the ride
\* ends with no seats and one active booking.
BothAskLastSeats(r) ==
    /\ \A p \in Procs :
          /\ procs[p].pc = "done"
          /\ procs[p].ride = r
          /\ procs[p].seats = rides[r].seats_total
          /\ procs[p].user # rides[r].driver_id
    /\ \A p, q \in Procs : p # q => procs[p].user # procs[q].user
    \* the ride had all its seats: its bookings are those the requests made
    /\ Len(bookings) = Cardinality({p \in Procs : procs[p].res = "ok"})

LastSeatRace ==
    \A r \in RideIds(rides) :
        BothAskLastSeats(r) =>
            /\ Cardinality({p \in Procs : procs[p].res = "ok"}) = 1
            /\ rides[r].seats_available = 0
            /\ Cardinality({b \in BookingsOf(bookings, r) :
                               bookings[b].status \in ActiveBooking}) = 1


\* C4 as claimed: at most one active booking per user and ride, and a
\* create_booking by a user who holds one is answered with the conflict.
OneActiveBookingConflict ==
    /\ \A u \in Users, r \in RideIds(rides) :
          Cardinality(ActiveBookingsBy(u, r)) <= 1
    /\ \A u \in Users, r \in RideIds(rides), k \in SeatsReservedInputs :
          ActiveBookingsBy(u, r) # {} =>
              create_booking(rides, bookings, u, r, k).res = "conflict"

\* C4 amended: at most one active booking per user and ride; a
\* create_booking by a user who holds one is always rejected and writes
\* nothing: as a validation error when the seat count is outside 1..10,
\* else as "cannot book" when the ride is completed or cancelled, else as
\* the conflict.
OneActiveBooking ==
    /\ \A u \in Users, r \in RideIds(rides) :
          Cardinality(ActiveBookingsBy(u, r)) <= 1
    /\ \A u \in Users, r \in RideIds(rides), k \in SeatsReservedInputs :
          ActiveBookingsBy(u, r) # {} =>
              LET o == create_booking(rides, bookings, u, r, k)
              IN /\ o.rides = rides
                 /\ o.bookings = bookings
                 /\ o.res = IF k < 1 \/ k > MaxSeatsReserved
                            THEN "validation_error"
                            ELSE IF rides[r].status \in TerminalRide
                            THEN "ride_closed"
                            ELSE "conflict"

\* C4 witness: a user who cancelled a booking has booked the ride again, and
\* one more create_booking of this user meets the conflict.
OneActiveBookingWitness ==
    /\ last.op = "createBooking"
    /\ \E b \in BookingIds(bookings) :
          /\ b # last.booking
          /\ bookings[b].ride_id = last.ride
          /\ bookings[b].passenger_id = last.user
          /\ bookings[b].status = "cancelled"
    /\ create_booking(rides, bookings, last.user, last.ride, 1).res = "conflict"

AllowedTransitions ==
    {<<"pending", "confirmed">>, <<"pending", "cancelled">>,
     <<"confirmed", "completed">>, <<"confirmed", "cancelled">>}

\* C7: update_booking_status moves a booking only along pending->confirmed,
\* pending->cancelled, confirmed->completed, confirmed->cancelled; any other
\* pair (any request for pending among them) is rejected, and a rejected
\* request leaves bookings and rides as they were.
BookingTransitions ==
    /\ \A b \in BookingIds(bookings), t \in StatusInputs, u \in Users :
          LET o == update_booking_status(rides, bookings, b, t, u)
              cur == bookings[b].status
          IN /\ o.res = "ok" => /\ <<cur, t>> \in AllowedTransitions
                                /\ o.bookings[b].status = t
             /\ <<cur, t>> \notin AllowedTransitions => o.res # "ok"
             /\ o.res # "ok" => (o.rides = rides /\ o.bookings = bookings)
             /\ \A c \in BookingIds(bookings) \ {b} : o.bookings[c] = bookings[c]
    /\ last.op = "setBookingStatus" =>
          /\ <<last.was, last.target>> \in AllowedTransitions
          /\ bookings[last.booking].status = last.target

\* C7 witness: the driver has completed a confirmed booking.
BookingTransitionsWitness ==
    /\ last.op = "setBookingStatus"
    /\ last.was = "confirmed"
    /\ last.target = "completed"
    /\ bookings[last.booking].status = "completed"

\* C8: confirmed and completed are set only by the ride's driver; a booking
\* is cancelled (by either handler) only by its passenger or the ride's
\* driver; a request of any other user is rejected and writes nothing.
RoleGating ==
    /\ \A b \in BookingIds(bookings), u \in Users :
          LET ride == rides[bookings[b].ride_id]
              driver == (u = ride.driver_id)
              party == (u = bookings[b].passenger_id) \/ driver
              c == cancel_booking(rides, bookings, b, u)
          IN /\ \A t \in StatusInputs :
                   LET o == update_booking_status(rides, bookings, b, t, u)
                   IN /\ (o.res = "ok" /\ t \in {"confirmed", "completed"})
                         => driver
                      /\ o.res = "ok" => party
                      /\ (~party \/ (~driver /\ t \in {"confirmed", "completed"}))
                         => /\ o.res # "ok"
                            /\ o.rides = rides
                            /\ o.bookings = bookings
             /\ c.res = "ok" => party
             /\ ~party => (c.res # "ok" /\ c.rides = rides
                           /\ c.bookings = bookings)
    /\ (last.op = "setBookingStatus"
        /\ last.target \in {"confirmed", "completed"})
          => last.user = rides[last.ride].driver_id
    /\ last.op \in {"setBookingStatus", "cancelBooking"}
          => \/ last.user = rides[last.ride].driver_id
             \/ last.user = bookings[last.booking].passenger_id

\* C8 witness: a passenger has cancelled the booking the driver could have
\* confirmed, while a third user is neither.
RoleGatingWitness ==
    /\ last.op \in {"setBookingStatus", "cancelBooking"}
    /\ last.target = "cancelled"
    /\ last.user = bookings[last.booking].passenger_id
    /\ \E u \in Users : /\ u # last.user
                        /\ u # rides[last.ride].driver_id

\* C9: a served create_booking directly followed by the cancellation of
\* that booking (by either handler, by passenger or driver) leaves the
\* ride's seats_available at its value before the create_booking.
BookThenCancelRestores ==
    /\ (last.op \in {"cancelBooking", "setBookingStatus"}
        /\ last.target = "cancelled" /\ last.chain # None)
          => rides[last.ride].seats_available = last.chain
    /\ last.op = "createBooking" =>
          \A u \in {bookings[last.booking].passenger_id,
                    rides[last.ride].driver_id} :
              LET c == cancel_booking(rides, bookings, last.booking, u)
                  o == update_booking_status(rides, bookings, last.booking,
                                             "cancelled", u)
              IN /\ c.res = "ok"
                 /\ o.res = "ok"
                 /\ c.rides[last.ride].seats_available = last.pre
                 /\ o.rides[last.ride].seats_available = last.pre

\* C9 witness: a booking of two seats was cancelled right after it was made.
BookThenCancelWitness ==
    /\ last.op \in {"cancelBooking", "setBookingStatus"}
    /\ last.target = "cancelled"
    /\ last.chain # None
    /\ bookings[last.booking].seats_reserved = MaxSeatsTotal
    /\ rides[last.ride].seats_available = last.chain

\* C10: on a ride that is not completed or cancelled and has seats left, a
\* create_booking for exactly the seats left, by a user who is not the
\* driver and holds no active booking, is served: a pending booking for
\* these seats, the ride at seats_available 0 and full.
LastSeatsBooking ==
    /\ \A u \in Users, r \in RideIds(rides) :
          LET k == rides[r].seats_available
              o == create_booking(rides, bookings, u, r, k)
          IN (/\ rides[r].status \notin TerminalRide
              /\ u # rides[r].driver_id
              /\ ActiveBookingsBy(u, r) = {}
              /\ k >= 1)
             => /\ o.res = "ok"
                /\ o.bookings = Append(bookings,
                       [ride_id |-> r, passenger_id |-> u,
                        seats_reserved |-> k,
                        amount_paid |-> k * rides[r].price_share,
                        status |-> "pending"])
                /\ o.rides[r].seats_available = 0
                /\ o.rides[r].status = "full"
    /\ (last.op = "createBooking"
        /\ bookings[last.booking].seats_reserved = last.pre)
          => /\ bookings[last.booking].status = "pending"
             /\ rides[last.ride].seats_available = 0
             /\ rides[last.ride].status = "full"

\* C10 witness: a ride request was booked for all its seats at once.
LastSeatsBookingWitness ==
    /\ last.op = "createBooking"
    /\ last.was = "requested"
    /\ last.pre = MaxSeatsTotal
    /\ bookings[last.booking].seats_reserved = last.pre
    /\ rides[last.ride].status = "full"

\* the results the specification calls a validation error: the schema's
\* rejection of the seat count and the handler's seat-availability check
ValidationErrors == {"validation_error", "not_enough_seats"}

\* C11 as claimed: a create_booking for more seats than the ride has left,
\* or for a seat count outside 1..10, is answered with a validation error
\* and writes nothing.
TooManySeatsValidationError ==
    \A u \in Users, r \in RideIds(rides), k \in SeatsReservedInputs :
        (k > rides[r].seats_available \/ k < 1 \/ k > MaxSeatsReserved) =>
            LET o == create_booking(rides, bookings, u, r, k)
            IN /\ o.res \in ValidationErrors
               /\ o.rides = rides
               /\ o.bookings = bookings

\* C11 amended: such a create_booking is always rejected and writes
\* nothing; the error is a validation error when the seat count is outside
\* 1..10, or when the caller is not the driver, the ride is not completed
\* or cancelled and the caller holds no active booking on it; otherwise it
\* is the error of the first of these checks that fails.
TooManySeatsRejected ==
    \A u \in Users, r \in RideIds(rides), k \in SeatsReservedInputs :
        (k > rides[r].seats_available \/ k < 1 \/ k > MaxSeatsReserved) =>
            LET o == create_booking(rides, bookings, u, r, k)
                ranged == k >= 1 /\ k <= MaxSeatsReserved
            IN /\ o.rides = rides
               /\ o.bookings = bookings
               /\ o.res = IF ~ranged THEN "validation_error"
                          ELSE IF u = rides[r].driver_id THEN "own_ride"
                          ELSE IF rides[r].status \in TerminalRide
                          THEN "ride_closed"
                          ELSE IF ActiveBookingsBy(u, r) # {} THEN "conflict"
                          ELSE "not_enough_seats"

\* C11 witness: a ride has one seat left after a booking, and a user without
\* a booking who asks for two seats is refused for lack of seats.
TooManySeatsWitness ==
    /\ last.op = "createBooking"
    /\ rides[last.ride].seats_available = 1
    /\ \E u \in Users :
          /\ ActiveBookingsBy(u, last.ride) = {}
          /\ create_booking(rides, bookings, u, last.ride, 2).res
                = "not_enough_seats"
          /\ create_booking(rides, bookings, u, last.ride,
                            MaxSeatsReserved + 1).res = "validation_error"

\* C12: a create_booking, update_booking_status, cancel_booking,
\* update_ride, update_ride_status or delete_ride that ends in an error
\* leaves the rides and bookings tables exactly as they were, also when the
\* error is the failed commit of fields already assigned.
ErrorsWriteNothing ==
    \A u \in Users :
        /\ \A r \in 1..MaxRides :
              /\ \A k \in SeatsReservedInputs :
                    LET o == create_booking(rides, bookings, u, r, k)
                    IN o.res # "ok" => (o.rides = rides /\ o.bookings = bookings)
              /\ \A patch \in Patches :
                    LET o == update_ride(rides, bookings, r, patch, u)
                    IN o.res # "ok" => (o.rides = rides /\ o.bookings = bookings)
              /\ \A t \in RideStatusInputs :
                    LET o == update_ride_status(rides, bookings, r, t, u)
                    IN o.res # "ok" => (o.rides = rides /\ o.bookings = bookings)
              /\ LET o == delete_ride(rides, bookings, r, u)
                 IN o.res # "ok" => (o.rides = rides /\ o.bookings = bookings)
        /\ \A b \in 1..MaxBookings :
              /\ \A t \in StatusInputs :
                    LET o == update_booking_status(rides, bookings, b, t, u)
                    IN o.res # "ok" => (o.rides = rides /\ o.bookings = bookings)
              /\ LET o == cancel_booking(rides, bookings, b, u)
                 IN o.res # "ok" => (o.rides = rides /\ o.bookings = bookings)

\* C12 witness: the commit of a cancellation fails on the seat range check
\* after the handler set the booking to cancelled and added its seats to
\* the ride.
ErrorsWriteNothingWitness ==
    \E b \in BookingIds(bookings), u \in Users :
        /\ bookings[b].status \in ActiveBooking
        /\ rides[bookings[b].ride_id].seats_available
              + bookings[b].seats_reserved
                  > rides[bookings[b].ride_id].seats_total
        /\ cancel_booking(rides, bookings, b, u).res = "integrity_error"

\* request p commits in this step
Commits(p) ==
    /\ procs[p].pc \in {"checked", "found"}
    /\ procs'[p].pc = "done"
    /\ procs'[p].res = "ok"

\* the booking row and the ride row a committing request writes are both in
\* the tables after the step
BothWritten(p) ==
    LET r == procs[p].ride
        snap == procs[p].snap
        b == procs[p].booking
    IN IF procs[p].pc = "checked"
       THEN /\ bookings' = Append(bookings,
                   [ride_id |-> r, passenger_id |-> procs[p].user,
                    seats_reserved |-> procs[p].seats,
                    amount_paid |-> procs[p].seats * snap.price_share,
                    status |-> "pending"])
            /\ rides'[r].seats_available
                  = snap.seats_available - procs[p].seats
            /\ ride_after_booking(snap, procs[p].seats).status # snap.status
                  => rides'[r].status
                       = ride_after_booking(snap, procs[p].seats).status
       ELSE /\ bookings' = [bookings EXCEPT ![b].status = "cancelled"]
            /\ rides'[r].seats_available
                  = snap.seats_available + bookings[b].seats_reserved
            /\ ride_after_cancel(snap, bookings[b]).status # snap.status
                  => rides'[r].status
                       = ride_after_cancel(snap, bookings[b]).status

\* C13: the booking write and the ride write of create_booking and of a
\* cancellation reach the tables in one step: a request that commits writes
\* both rows, every change of either table is such a commit, and a request
\* that is between two awaits, fails or is abandoned has written neither.
CommittedTogether ==
    [][/\ \A p \in Procs : Commits(p) => BothWritten(p)
       /\ (rides' # rides \/ bookings' # bookings)
             => \E p \in Procs : Commits(p)
       /\ (\E p \in Procs : procs'[p] # procs[p] /\ ~Commits(p))
             => (rides' = rides /\ bookings' = bookings)]_vars

\* C13 witness: one request has cancelled a booking and given its seats
\* back while another request was abandoned after it had loaded the ride.
CommittedTogetherWitness ==
    \E p, q \in Procs :
        /\ procs[p].pc = "done" /\ procs[p].res = "ok"
        /\ procs[p].booking # 0
        /\ bookings[procs[p].booking].status = "cancelled"
        /\ rides[procs[p].ride].seats_available
              = procs[p].snap.seats_available
                  + bookings[procs[p].booking].seats_reserved
        /\ procs[q].pc = "aborted"
        /\ procs[q].snap # NoSnap

OnlyTerminalTargets ==
    /\ [](\A r \in RideIds(rides), u \in Users,
             t \in {"open", "full", "requested"} :
             LET o == update_ride_status(rides, bookings, r, t, u)
             IN /\ o.res = "validation_error"
                /\ o.rides = rides
                /\ o.bookings = bookings)
    /\ [][\A r \in RideIds(rides') :
             (/\ rides'[r].status \in {"open", "full", "requested"}
              /\ (r \in RideIds(rides) => rides[r].status # rides'[r].status))
                => /\ last'.ride = r
                   /\ \/ last'.op \in {"createRide", "createBooking",
                                        "cancelBooking"}
                      \/ /\ last'.op = "setBookingStatus"
                         /\ last'.target = "cancelled"]_vars

\* C16 witness: a booking turned a ride request into an open ride, and the
\* driver's request to set it back to requested is refused.
OnlyTerminalTargetsWitness ==
    /\ last.op = "createBooking"
    /\ last.was = "requested"
    /\ rides[last.ride].status = "open"
    /\ update_ride_status(rides, bookings, last.ride, "requested",
                          rides[last.ride].driver_id).res = "validation_error"

\* C17: delete_ride by the owner removes the ride exactly when it has no
\* booking of any status; otherwise the ride row and every booking stay and
\* the ride is cancelled.
DeleteOnlyWithoutBookings ==
    /\ \A r \in RideIds(rides) :
          LET o == delete_ride(rides, bookings, r, rides[r].driver_id)
          IN /\ o.res = "ok"
             /\ o.bookings = bookings
             /\ IF BookingsOf(bookings, r) = {}
                THEN r \notin RideIds(o.rides)
                ELSE /\ r \in RideIds(o.rides)
                     /\ o.rides = [rides EXCEPT ![r].status = "cancelled"]
    /\ last.op = "deleteRide" =>
          IF BookingsOf(bookings, last.ride) = {}
          THEN last.ride \notin RideIds(rides)
          ELSE /\ last.ride \in RideIds(rides)
               /\ rides[last.ride].status = "cancelled"

\* C17 witness: the owner deleted an open ride whose only booking was
\* cancelled; the ride is kept and cancelled.
DeleteOnlyWithoutBookingsWitness ==
    /\ last.op = "deleteRide"
    /\ last.was = "open"
    /\ BookingsOf(bookings, last.ride) # {}
    /\ \A b \in BookingsOf(bookings, last.ride) :
          bookings[b].status = "cancelled"
    /\ last.ride \in RideIds(rides)
    /\ rides[last.ride].status = "cancelled"

\* C18: a served update_ride that changes seats_total from old_total to
\* new_total sets seats_available to new_total - (old_total - old_available).
SeatsRecomputedOnResize ==
    \A r \in RideIds(rides), n \in 1..MaxSeatsTotal :
        LET o == update_ride(rides, bookings, r,
                             [seats_total |-> n, price_share |-> None],
                             rides[r].driver_id)
        IN (o.res = "ok" /\ n # rides[r].seats_total) =>
              o.rides[r].seats_available
                  = n - (rides[r].seats_total - rides[r].seats_available)

\* C19: update_ride by the owner of a ride that is not completed or
\* cancelled, with a new seats_total below the seats already booked
\* (old_total - old_available), is rejected and leaves the ride as it was.
ResizeBelowBookedRejected ==
    \A r \in RideIds(rides), n \in 1..MaxSeatsTotal :
        LET o == update_ride(rides, bookings, r,
                             [seats_total |-> n, price_share |-> None],
                             rides[r].driver_id)
        IN (/\ rides[r].status \notin TerminalRide
            /\ n < rides[r].seats_total - rides[r].seats_available)
              => /\ o.res \in {"seats_below_booked", "validation_error"}
                 /\ o.rides = rides

\* C20: update_ride on a completed or cancelled ride is rejected, whoever
\* asks and whatever the patch, and writes nothing; the owner's well-formed
\* patch is refused because of the ride's status.
TerminalRideNotUpdated ==
    \A r \in RideIds(rides), patch \in Patches, u \in Users :
        rides[r].status \in TerminalRide =>
            LET o == update_ride(rides, bookings, r, patch, u)
            IN /\ o.res # "ok"
               /\ o.rides = rides
               /\ o.bookings = bookings
               /\ (u = rides[r].driver_id /\ validate_patch(patch))
                     => o.res = "ride_closed"

\* C20 witness: the owner completed a ride that had seats left, and the
\* owner's patch of its seat count is refused because the ride is closed.
TerminalRideNotUpdatedWitness ==
    /\ last.op = "setStatus"
    /\ rides[last.ride].status = "completed"
    /\ rides[last.ride].seats_available >= 1
    /\ update_ride(rides, bookings, last.ride,
                   [seats_total |-> MaxSeatsTotal, price_share |-> None],
                   rides[last.ride].driver_id).res = "ride_closed"

\* C21: a create_ride with a seat count in 1..10 and a valid price stores a
\* new ride with seats_available = seats_total and no bookings, requested
\* for a passenger's request and open for an offer; with seats_total < 1 it
\* is rejected and stores nothing.
NewRideHasAllSeats ==
    /\ \A u \in Users, t \in RideTypes, n \in SeatsTotalInputs, p \in PriceInputs :
          LET o == create_ride(rides, bookings, u, t, n, p)
              id == Len(rides) + 1
          IN /\ (n >= 1 /\ n <= MaxSeats /\ p \in Prices) =>
                   /\ o.res = "ok"
                   /\ o.bookings = bookings
                   /\ o.rides = Append(rides,
                         [driver_id |-> u, seats_total |-> n,
                          seats_available |-> n, price_share |-> p,
                          status |-> IF t = "request" THEN "requested"
                                     ELSE "open",
                          deleted |-> FALSE])
                   /\ BookingsOf(o.bookings, id) = {}
             /\ n < 1 => /\ o.res = "validation_error"
                         /\ o.rides = rides
                         /\ o.bookings = bookings
    /\ last.op = "createRide" =>
          /\ rides[last.ride].seats_available = rides[last.ride].seats_total
          /\ BookingsOf(bookings, last.ride) = {}
          /\ rides[last.ride].status
                = (IF last.target = "request" THEN "requested" ELSE "open")

\* C21 witness: a passenger's request for the largest seat count was stored.
NewRideWitness ==
    /\ last.op = "createRide"
    /\ last.target = "request"
    /\ rides[last.ride].status = "requested"
    /\ rides[last.ride].seats_available = MaxSeatsTotal
    /\ create_ride(rides, bookings, last.user, "offer", 0, 0).res
          = "validation_error"

\* C22: a create_booking by the ride's driver is rejected whatever the
\* ride's status, seats and the seat count asked for, and writes nothing;
\* no booking has its ride's driver as passenger.
OwnRideNotBooked ==
    /\ \A r \in RideIds(rides), k \in SeatsReservedInputs :
          LET o == create_booking(rides, bookings, rides[r].driver_id, r, k)
          IN /\ o.res # "ok"
             /\ o.rides = rides
             /\ o.bookings = bookings
             /\ (k >= 1 /\ k <= MaxSeatsReserved) => o.res = "own_ride"
    /\ \A b \in BookingIds(bookings) :
          bookings[b].ride_id \in RideIds(rides) =>
              bookings[b].passenger_id # rides[bookings[b].ride_id].driver_id

\* C22 witness: the driver asks for a seat of the own ride, which is open,
\* has a seat left and a booking of another user.
OwnRideWitness ==
    \E r \in RideIds(rides) :
        /\ rides[r].status = "open"
        /\ rides[r].seats_available >= 1
        /\ BookingsOf(bookings, r) # {}
        /\ create_booking(rides, bookings, rides[r].driver_id, r, 1).res
              = "own_ride"

\* C23: a create_booking on a completed or cancelled ride is rejected and
\* writes nothing, so no step adds a booking to a ride that is completed or
\* cancelled.
TerminalRideNotBooked ==
    /\ [](\A r \in RideIds(rides), u \in Users, k \in SeatsReservedInputs :
             rides[r].status \in TerminalRide =>
                 LET o == create_booking(rides, bookings, u, r, k)
                 IN /\ o.res # "ok"
                    /\ o.rides = rides
                    /\ o.bookings = bookings
                    /\ (k >= 1 /\ k <= MaxSeatsReserved
                        /\ u # rides[r].driver_id) => o.res = "ride_closed")
    /\ [][\A r \in RideIds(rides) :
             rides[r].status \in TerminalRide
                 => BookingsOf(bookings', r) = BookingsOf(bookings, r)]_vars

\* C23 witness: a ride was completed with a seat left, and a user without a
\* booking who asks for that seat is refused because the ride is closed.
TerminalRideNotBookedWitness ==
    /\ last.op = "setStatus"
    /\ rides[last.ride].status = "completed"
    /\ rides[last.ride].seats_available >= 1
    /\ \E u \in Users :
          /\ \A b \in BookingsOf(bookings, last.ride) :
                bookings[b].passenger_id # u
          /\ create_booking(rides, bookings, u, last.ride, 1).res
                = "ride_closed"

\* the two ways to cancel booking b as user u
Cancellations(b, u) ==
    {cancel_booking(rides, bookings, b, u),
     update_booking_status(rides, bookings, b, "cancelled", u)}

\* C24: a served cancellation of a pending or confirmed booking, by either
\* handler and by the passenger or the driver, adds exactly the booking's
\* seats_reserved to the ride's seats_available, turns a full ride open when
\* seats_available is then above 0 and leaves any other ride status alone;
\* the cancellation is served whenever the sum stays within seats_total.
CancelFreesSeats ==
    /\ \A b \in BookingIds(bookings) :
          LET r == bookings[b].ride_id
              k == bookings[b].seats_reserved
              avail == rides[r].seats_available
          IN (r \in RideIds(rides) /\ bookings[b].status \in ActiveBooking) =>
               \A u \in {bookings[b].passenger_id, rides[r].driver_id} :
                 \A o \in Cancellations(b, u) :
                   /\ avail + k <= rides[r].seats_total => o.res = "ok"
                   /\ o.res = "ok" =>
                        /\ o.bookings = [bookings EXCEPT ![b].status = "cancelled"]
                        /\ o.rides[r].seats_available = avail + k
                        /\ o.rides[r].status =
                              IF rides[r].status = "full" /\ avail + k > 0
                              THEN "open" ELSE rides[r].status
                        /\ o.rides[r].seats_total = rides[r].seats_total
    /\ (last.op \in {"cancelBooking", "setBookingStatus"}
        /\ last.target = "cancelled")
          => /\ last.was \in ActiveBooking
             /\ rides[last.ride].status # "full"

\* C24 witness: the driver cancelled a booking of all seats of a ride; the
\* ride, which was full, has all its seats again and is open.
CancelFreesSeatsWitness ==
    /\ last.op \in {"cancelBooking", "setBookingStatus"}
    /\ last.target = "cancelled"
    /\ last.user = rides[last.ride].driver_id
    /\ bookings[last.booking].seats_reserved = MaxSeatsTotal
    /\ rides[last.ride].seats_total = MaxSeatsTotal
    /\ rides[last.ride].seats_available = MaxSeatsTotal
    /\ rides[last.ride].status = "open"

\* C25: cancel_booking(b, u) and update_booking_status(b, cancelled, u)
\* agree from every state, for every booking id and user: the same result,
\* and the same rides and bookings tables afterwards.
CancelPathsAgree ==
    \A b \in 1..MaxBookings, u \in Users :
        LET c == cancel_booking(rides, bookings, b, u)
            o == update_booking_status(rides, bookings, b, "cancelled", u)
        IN /\ c.res = o.res
           /\ c.rides = o.rides
           /\ c.bookings = o.bookings

\* C25 witness: both paths serve the passenger's cancellation of an active
\* booking on a full ride, and both refuse to cancel another booking that
\* is cancelled already.
CancelPathsAgreeWitness ==
    \E b1, b2 \in BookingIds(bookings) :
        /\ bookings[b1].status \in ActiveBooking
        /\ rides[bookings[b1].ride_id].status = "full"
        /\ cancel_booking(rides, bookings, b1,
                          bookings[b1].passenger_id).res = "ok"
        /\ cancel_booking(rides, bookings, b1,
                          bookings[b1].passenger_id).rides # rides
        /\ bookings[b2].status = "cancelled"
        /\ update_booking_status(rides, bookings, b2, "cancelled",
                                 bookings[b2].passenger_id).res
              = "booking_cancelled"

\* C26: cancelling a booking that is cancelled already, by either handler
\* and by any user, is rejected and leaves the booking and the ride's seats
\* as they are; the passenger and the driver are told the booking is
\* cancelled already.
CancelledNotCancelledAgain ==
    \A b \in BookingIds(bookings), u \in Users :
        (bookings[b].status = "cancelled"
         /\ bookings[b].ride_id \in RideIds(rides)) =>
            \A o \in Cancellations(b, u) :
                /\ o.res # "ok"
                /\ o.bookings = bookings
                /\ o.rides = rides
                /\ (u = bookings[b].passenger_id
                    \/ u = rides[bookings[b].ride_id].driver_id)
                      => o.res = "booking_cancelled"

\* C26 witness: a booking was just cancelled and its seats returned; the
\* same user's second cancellation is refused.
CancelledNotCancelledAgainWitness ==
    /\ last.op \in {"cancelBooking", "setBookingStatus"}
    /\ last.target = "cancelled"
    /\ bookings[last.booking].status = "cancelled"
    /\ rides[last.ride].seats_available >= 1
    /\ \A o \in Cancellations(last.booking, last.user) :
          o.res = "booking_cancelled"

\* C27: a booking is created with amount_paid = seats_reserved times the
\* ride's price_share of that moment, and no step changes the amount_paid
\* of a booking that exists: not a change of the ride's price, not a status
\* change of the booking or of the ride.
AmountPaidFixed ==
    [][/\ \A b \in BookingIds(bookings) :
             /\ b \in BookingIds(bookings')
             /\ bookings'[b].amount_paid = bookings[b].amount_paid
       /\ \A b \in BookingIds(bookings') \ BookingIds(bookings) :
             bookings'[b].amount_paid
                 = bookings'[b].seats_reserved
                       * rides[bookings'[b].ride_id].price_share]_vars

\* C27 witness: the owner changed the price of a ride that has a booking;
\* the booking's amount_paid is still the amount at the old price.
AmountPaidFixedWitness ==
    /\ last.op = "updateRide"
    /\ \E b \in BookingsOf(bookings, last.ride) :
          /\ bookings[b].amount_paid > 0
          /\ bookings[b].amount_paid
                # bookings[b].seats_reserved * rides[last.ride].price_share

\* seats_available of every ride that rs1 keeps is as in rs0
SameSeats(rs0, rs1) ==
    \A r \in RideIds(rs1) :
        r \in RideIds(rs0) /\ rs1[r].seats_available = rs0[r].seats_available

\* confirming, completing or re-opening a booking and the read requests
\* return the rides table as they found it; update_ride_status, delete_ride
\* and an update_ride without seats_total return every ride that is left
\* with the seats_available it had
SeatsKeptByOtherRequests ==
    /\ \A b \in 1..MaxBookings, u \in Users :
          \A t \in {"confirmed", "completed", "pending"} :
              update_booking_status(rides, bookings, b, t, u).rides = rides
    /\ \A r \in 1..MaxRides, u \in Users :
          \A t \in RideStatusInputs :
              SameSeats(rides,
                        update_ride_status(rides, bookings, r, t, u).rides)
    /\ \A r \in 1..MaxRides, u \in Users :
          SameSeats(rides, delete_ride(rides, bookings, r, u).rides)
    /\ \A r \in 1..MaxRides, u \in Users :
          \A p \in PriceInputs :
              SameSeats(rides,
                        update_ride(rides, bookings, r,
                                    [seats_total |-> None, price_share |-> p],
                                    u).rides)
    /\ \A r \in 1..MaxRides :
          get_ride(rides, bookings, r).rides = rides
    /\ \A k \in SeatFilters, p \in PriceInputs \cup {None} :
          search_rides(rides, bookings, k, p).rides = rides
    /\ \A t \in RideTypes \cup {NoFilter}, st \in StatusFilters :
          \A k \in SeatFilters :
              list_rides(rides, bookings, t, st, k).rides = rides
    /\ \A u \in Users :
          get_booking_stats(rides, bookings, u).rides = rides

\* C28: confirming or completing a booking, update_ride_status,
\* delete_ride, an update_ride without seats_total and the read requests
\* (search, list, get, booking statistics) leave seats_available of every
\* ride as it is; a step that changes a ride's seats_available is a
\* create_booking, a booking cancellation or an update_ride on that ride.
SeatsChangedOnlyByBookings ==
    /\ []SeatsKeptByOtherRequests
    /\ [][\A r \in RideIds(rides) :
             (r \in RideIds(rides')
              /\ rides'[r].seats_available # rides[r].seats_available)
                => /\ last'.ride = r
                   /\ \/ last'.op \in {"createBooking", "cancelBooking"}
                      \/ /\ last'.op = "setBookingStatus"
                         /\ last'.target = "cancelled"
                      \/ /\ last'.op = "updateRide"
                         /\ rides'[r].seats_total # rides[r].seats_total]_vars

\* C28 witness: the owner cancelled a full ride; its booking is cancelled
\* and the ride still has no seat available.
SeatsChangedOnlyByBookingsWitness ==
    /\ last.op = "setStatus"
    /\ last.target = "cancelled"
    /\ last.was = "full"
    /\ rides[last.ride].seats_available = 0
    /\ \E b \in BookingsOf(bookings, last.ride) :
          bookings[b].status = "cancelled"
    /\ search_rides(rides, bookings, None, None).body = {}

\* C29: on a ride that is completed or cancelled, a served cancellation of
\* a booking that is still pending or confirmed leaves the ride's
\* seats_available and status as they were.
TerminalRideCancelKeepsSeats ==
    \A b \in BookingIds(bookings) :
        LET r == bookings[b].ride_id
        IN (/\ r \in RideIds(rides)
            /\ rides[r].status \in TerminalRide
            /\ bookings[b].status \in ActiveBooking) =>
             \A u \in Users :
               \A o \in Cancellations(b, u) :
                 o.res = "ok" =>
                   /\ o.rides[r].seats_available = rides[r].seats_available
                   /\ o.rides[r].status = rides[r].status

\* C30: after each served create_booking and each served booking
\* cancellation on a ride that is not completed or cancelled, the ride is
\* what update_ride_availability computes for it from the bookings as they
\* are after the request: the same seats_available and the same status.
SeatsFollowReconcile ==
    [][\A r \in RideIds(rides) :
          (/\ rides[r].status \notin TerminalRide
           /\ bookings' # bookings
           /\ last'.ride = r
           /\ \/ last'.op \in {"createBooking", "cancelBooking"}
              \/ last'.op = "setBookingStatus" /\ last'.target = "cancelled")
            => LET ride == update_ride_availability(rides, bookings', r)[r]
               IN /\ rides'[r].seats_available = ride.seats_available
                  /\ rides'[r].status = ride.status]_vars

\* C31: a booking or cancellation request that commits has computed the
\* ride's seats from the ride row as it is at the commit: when another
\* request committed in between, the request is run again on fresh data or
\* answered with a conflict, never committed from the row it read before.
NoCommitOnStaleSeats ==
    [][\A p \in Procs :
          (/\ procs[p].pc \in {"checked", "found"}
           /\ procs'[p].pc = "done"
           /\ procs'[p].res = "ok")
            => procs[p].snap.seats_available
                   = rides[procs[p].ride].seats_available]_vars

NearbyMatches ==
    {r \in RideIds(rides) :
        LET from == ST_Distance(rides[r].origin_geom, last.point)
            to == ST_Distance(rides[r].destination_geom, last.point)
        IN /\ rides[r].status \notin TerminalRide
           /\ last.seats = None \/ rides[r].seats_available >= last.seats
           /\ last.max_price = None \/ rides[r].price_share <= last.max_price
           /\ CASE last.search_type = "origin" ->
                       from <= last.radius_km * 1000
                []  last.search_type = "destination" ->
                       to <= last.radius_km * 1000
                []  OTHER -> \/ from <= last.radius_km * 1000
                             \/ to <= last.radius_km * 1000}

\* the distance a returned ride is ranked by
NearbyRank(r) ==
    LET from == ST_Distance(rides[r].origin_geom, last.point)
        to == ST_Distance(rides[r].destination_geom, last.point)
    IN CASE last.search_type = "origin" -> from
       []  last.search_type = "destination" -> to
       []  OTHER -> IF from <= to THEN from ELSE to

\* the answer kept in last is the requested page of NearbyMatches, nearest
\* first: no ride twice, never a ride before a nearer one, the ride at
\* place g of the whole list being a g-th nearest one
NearbyPageExact ==
    (last.op = "searchNearby" /\ last.res = "ok") =>
        LET body == last.body
            offset == (last.page - 1) * last.page_size
            onPage == {body[i] : i \in 1..Len(body)}
            nearer(r) == {x \in NearbyMatches : NearbyRank(x) < NearbyRank(r)}
            asNear(r) == {x \in NearbyMatches : NearbyRank(x) <= NearbyRank(r)}
        IN /\ last.total = Cardinality(NearbyMatches)
           /\ onPage \subseteq NearbyMatches
           /\ Cardinality(onPage) = Len(body)
           /\ Len(body) = IF last.total - offset >= last.page_size
                          THEN last.page_size
                          ELSE IF last.total >= offset
                          THEN last.total - offset ELSE 0
           /\ (offset = 0 /\ last.page_size >= last.total)
                 => onPage = NearbyMatches
           /\ \A i, j \in 1..Len(body) :
                 i < j => NearbyRank(body[i]) <= NearbyRank(body[j])
           /\ \A i \in 1..Len(body) :
                 /\ Cardinality(nearer(body[i])) <= offset + i - 1
                 /\ Cardinality(asNear(body[i])) >= offset + i

\* C33: a served proximity search counts exactly the non-terminal rides
\* that pass the filters and have the selected point (origin, destination,
\* or one of the two for 'both') within radius_km * 1000 metres, and
\* returns the requested page of them nearest first, by the smaller of the
\* two distances for 'both'; the default first page holds all of them.
\* The search writes nothing.
NearbySearchExact ==
    /\ []NearbyPageExact
    /\ [][rides' = rides /\ bookings' = bookings]_vars

\* C33 witness: a search by 'both' returned two rides on one page, the
\* second ride of the table first: it ends nearer to the centre than it
\* starts and nearer than the first ride, which lies exactly on the radius.
NearbySearchWitness ==
    /\ last.op = "searchNearby"
    /\ last.res = "ok"
    /\ last.search_type = "both"
    /\ last.body = <<2, 1>>
    /\ NearbyRank(2) = ST_Distance(rides[2].destination_geom, last.point)
    /\ NearbyRank(2) < ST_Distance(rides[2].origin_geom, last.point)
    /\ NearbyRank(2) < NearbyRank(1)
    /\ NearbyRank(1) = last.radius_km * 1000

\* C34: a served create_booking on a ride in status requested leaves the
\* ride open when seats remain after the booking and full when none remain,
\* from every state and for every user and seat count; so the ride of a
\* booking that was just served is never in status requested.
RequestedRideLeavesRequested ==
    /\ \A r \in RideIds(rides), u \in Users, k \in SeatsReservedInputs :
          LET o == create_booking(rides, bookings, u, r, k)
          IN (rides[r].status = "requested" /\ o.res = "ok") =>
                /\ o.rides[r].seats_available = rides[r].seats_available - k
                /\ o.rides[r].status =
                      IF o.rides[r].seats_available > 0 THEN "open"
                      ELSE "full"
    /\ last.op = "createBooking" => rides[last.ride].status # "requested"

\* C34 witness: a booking of one seat was served on a requested ride of two
\* seats, which is open now with one seat left.
RequestedRideWitness ==
    /\ last.op = "createBooking"
    /\ last.was = "requested"
    /\ last.pre = 2
    /\ rides[last.ride].status = "open"
    /\ rides[last.ride].seats_available = 1

\* C35: every ride that is not completed or cancelled has status full
\* exactly when its seats_available is 0.
FullIffNoSeats ==
    \A r \in RideIds(rides) :
        rides[r].status \notin TerminalRide =>
            (rides[r].status = "full" <=> rides[r].seats_available = 0)

\* a served cancellation of a booking on a full ride leaves the ride open
FullRideReopens ==
    \A b \in BookingIds(bookings), u \in Users :
        LET r == bookings[b].ride_id
        IN (r \in RideIds(rides) /\ rides[r].status = "full") =>
              \A o \in Cancellations(b, u) :
                  o.res = "ok" => o.rides[r].status = "open"

\* on a ride that is still requested: when a booking takes all its seats
\* and is then cancelled, by either handler and either party, the ride is
\* open
RequestedRideReopens ==
    \A r \in RideIds(rides), u \in Users, k \in SeatsReservedInputs :
        LET o1 == create_booking(rides, bookings, u, r, k)
            b == Len(o1.bookings)
        IN (/\ rides[r].status = "requested"
            /\ o1.res = "ok"
            /\ o1.rides[r].status = "full") =>
              \A v \in Users :
                 \A o2 \in {cancel_booking(o1.rides, o1.bookings, b, v),
                            update_booking_status(o1.rides, o1.bookings, b,
                                                  "cancelled", v)} :
                    o2.res = "ok" => o2.rides[r].status = "open"

\* C36: no step takes a ride whose status is not requested to status
\* requested; a served cancellation on a full ride leaves the ride open,
\* also on a ride that was created as a request and filled by a booking.
NeverBackToRequested ==
    /\ [][\A r \in RideIds(rides) :
             (r \in RideIds(rides') /\ rides[r].status # "requested")
                => rides'[r].status # "requested"]_vars
    /\ []FullRideReopens
    /\ []RequestedRideReopens

\* C36 witness: a requested ride whose seats a passenger can book all at
\* once, which makes it full, and whose booking the passenger then cancels,
\* which makes it open.
NeverBackToRequestedWitness ==
    \E r \in RideIds(rides), u \in Users :
        LET o1 == create_booking(rides, bookings, u, r, rides[r].seats_total)
            o2 == cancel_booking(o1.rides, o1.bookings, Len(o1.bookings), u)
        IN /\ rides[r].status = "requested"
           /\ last.op = "createRide"
           /\ last.target = "request"
           /\ o1.res = "ok"
           /\ o1.rides[r].status = "full"
           /\ o2.res = "ok"
           /\ o2.rides[r].status = "open"
           /\ o2.rides[r].seats_available = rides[r].seats_total

\* C37: a ride whose status is completed or cancelled has no pending or
\* confirmed booking.
TerminalRideHasNoActiveBooking ==
    \A r \in RideIds(rides) :
        rides[r].status \in TerminalRide =>
            \A b \in BookingsOf(bookings, r) :
                bookings[b].status \notin ActiveBooking

\* C38: of two concurrent create_booking requests of one user for one ride
\* at most one is served, and the user never holds two pending or confirmed
\* bookings on the ride.
SameUserBooksOnce ==
    /\ \A p, q \in Procs :
          (/\ p # q
           /\ procs[p].seats >= 1 /\ procs[q].seats >= 1
           /\ procs[p].user = procs[q].user
           /\ procs[p].ride = procs[q].ride)
            => ~(procs[p].res = "ok" /\ procs[q].res = "ok")
    /\ \A u \in Users, r \in RideIds(rides) :
          Cardinality(ActiveBookingsBy(u, r)) <= 1

\* C39: when a cancellation of one booking and a create_booking of another
\* on the same ride ran concurrently and both were served, the ride's
\* seats_available is seats_total minus the seats of its pending and
\* confirmed bookings.
CancelAndBookBothCount ==
    \A r \in RideIds(rides) :
        (\E p, q \in Procs :
            /\ procs[p].pc = "done" /\ procs[p].res = "ok"
            /\ procs[p].booking # 0 /\ procs[p].ride = r
            /\ procs[q].pc = "done" /\ procs[q].res = "ok"
            /\ procs[q].seats >= 1 /\ procs[q].ride = r)
          => rides[r].seats_available
                = rides[r].seats_total - ActiveSeats(bookings, r)

\* the admitted calls of ip whose clock reading t satisfies lo < t <= hi
AdmittedIn(adm, ip, lo, hi) ==
    {i \in 1..Len(adm[ip]) : lo < adm[ip][i] /\ adm[ip][i] <= hi}

QuotaKept ==
    \A ip \in ClientIPs : \A a \in (0 - window_seconds)..MaxClock :
        Cardinality(AdmittedIn(admitted, ip, a, a + window_seconds)) <= max_requests

RateCheckStep ==
    \A p \in Procs :
        (procs[p].pc = "waiting" /\ procs'[p].pc = "served") =>
            LET ip == procs[p].client_ip
                used == Cardinality(AdmittedIn(admitted, ip, now - window_seconds, now))
            IN /\ (procs'[p].res = "ok") <=> (used < max_requests)
               /\ procs'[p].res = "ok" =>
                     admitted'[ip] = Append(admitted[ip], now)
               /\ procs'[p].res # "ok" => admitted' = admitted
               /\ Len(requests'[ip]) =
                     Cardinality(AdmittedIn(admitted', ip, now - window_seconds, now))
               /\ \A other \in ClientIPs \ {ip} :
                     /\ requests'[other] = requests[other]
                     /\ admitted'[other] = admitted[other]

\* C40: for every client IP the limiter admits at most max_requests calls
\* in any window of window_seconds clock ticks, whatever the interleaving of
\* the pending requests; a call is admitted exactly when fewer than
\* max_requests calls of the same IP were admitted in the window ending at
\* its clock reading, a rejected call adds nothing to the history, and a
\* call leaves the lists of the other IPs alone.
RateLimitHolds ==
    /\ []QuotaKept
    /\ [][RateCheckStep]_vars

\* C40 witness: a call of IP 1 was rejected with the quota of the window
\* used up while another request of IP 1 is still pending, IP 2 was admitted
\* in the same window, and IP 1 had been admitted again after an earlier
\* window had passed.
RateLimitWitness ==
    /\ \E p \in Procs : /\ procs[p].pc = "served"
                        /\ procs[p].client_ip = 1
                        /\ procs[p].res = "too_many_requests"
    /\ \E q \in Procs : procs[q].pc = "waiting" /\ procs[q].client_ip = 1
    /\ Cardinality(AdmittedIn(admitted, 1, now - window_seconds, now)) = max_requests
    /\ Len(admitted[1]) > max_requests
    /\ Cardinality(AdmittedIn(admitted, 2, now - window_seconds, now)) >= 1

====
